---- MODULE Spec2Model ----
(***************************************************************************)
(* Model of the deduplication core of inovar-alert-bot:                    *)
(*   services/alert_checker.py  (AlertChecker)                             *)
(*   models/database.py         (Azure Table Storage event store)          *)
(* Strings are sequences of one-character strings, so that splitting and   *)
(* concatenation are computed as the code computes them.                   *)
(***************************************************************************)
EXTENDS Integers, Sequences, FiniteSets, TLC

VARIABLES
    store,          \* the "alertevents" table: set of entities
    clock,          \* datetime.utcnow(), a logical clock
    recipients,     \* Config.get_email_recipients()
    faults,         \* transient storage errors raised so far
    run,            \* per check_alerts invocation: position and locals
    alert_calls,    \* history: invocations of EmailNotifier.send_alert_email
    failure_calls,  \* history: invocations of EmailNotifier.send_failure_email
    created,        \* history: create_entity calls that inserted an entity
    saved,          \* history: save_event_record calls that returned True
    declined,       \* history: save_event_record calls that returned False
    marked,         \* history: update_entity calls of mark_event_notified
    portal,         \* what the school portal currently holds
    overlap,        \* whether the scheduler lets invocations overlap
    fn              \* inputs and outputs of the pure identity functions

vars == <<store, clock, recipients, faults, run, alert_calls, failure_calls,
          created, saved, declined, marked, portal, overlap, fn>>

----------------------------------------------------------------------------
(* Bounds *)

NumRuns == 2        \* check_alerts invocations
MaxBatch == 1       \* raw records the portal holds while invocations overlap
MaxBatchSeq == 2    \* raw records the portal holds while they run in turn
MaxFaults == 1      \* transient errors of the store and of the portal
MaxDateLen == 5     \* characters of a generated date string
MaxFieldLen == 2    \* characters of a generated discriminator value

Runs == 1..NumRuns

----------------------------------------------------------------------------
(* Strings *)

D_DMY  == <<"1","9","-","1","1","-","2","0","2","5">>
D_YMD  == <<"2","0","2","5","-","1","1","-","1","9">>
UNKNOWN == <<"u","n","k","n","o","w","n">>
TODAY  == <<"2","0","2","6","-","0","1","-","0","1">>
EMPTY  == <<>>
D_DMYY == <<"1","9","-","1","1","-","2","5">>

\* a raw value that is a number, not a string (a JSON number such as
\* 20251119)
NUMBER == <<"(number)">>

Contains(s, c) == \E i \in 1..Len(s) : s[i] = c

RECURSIVE Split(_, _)
Split(s, sep) ==
    IF ~Contains(s, sep) THEN <<s>>
    ELSE LET i == CHOOSE k \in 1..Len(s) :
                      s[k] = sep /\ \A j \in 1..(k-1) : s[j] # sep
         IN  <<SubSeq(s, 1, i-1)>> \o Split(SubSeq(s, i+1, Len(s)), sep)

TypeString(event_type) ==
    IF event_type = "absence"
    THEN <<"a","b","s","e","n","c","e">>
    ELSE <<"b","e","h","a","v","i","o","r","_","a","l","e","r","t">>

\* dict.get(key, default)
Get(event, key, default) ==
    IF key \in DOMAIN event THEN event[key] ELSE default

----------------------------------------------------------------------------
(* Event identity *)

NormalizeDate(date_str) ==
    IF date_str = EMPTY \/ date_str = UNKNOWN THEN UNKNOWN
    ELSE IF Contains(date_str, "-")
         THEN LET parts == Split(date_str, "-")
              IN  IF Len(parts) = 3 /\ Len(parts[1]) <= 2
                  THEN parts[3] \o <<"-">> \o parts[2] \o <<"-">> \o parts[1]
                  ELSE date_str
         ELSE date_str

\* line 204: "-" in date_str raises TypeError when date_str is a number
\* other than 0
NormalizeDateRaises(date_str) == date_str = NUMBER

\* lines 175-176: _generate_event_id raises what _normalize_date raises
GenerateEventIdRaises(event) ==
    NormalizeDateRaises(Get(event, "date", UNKNOWN))

\* hashlib.sha256(...).hexdigest()[:32], taken as injective on its input
Sha256Hex32(id_string) == [sha256 |-> id_string]

\* an identity that also hashes the description of an absence
IdString_WithDescription(event, event_type) ==
    LET date_normalized == NormalizeDate(Get(event, "date", UNKNOWN))
    IN  IF event_type = "absence"
        THEN TypeString(event_type) \o <<"|">> \o date_normalized \o <<"|">>
                 \o Get(event, "subject", EMPTY) \o <<"|">>
                 \o Get(event, "absence_type", EMPTY) \o <<"|">>
                 \o Get(event, "description", EMPTY)
        ELSE TypeString(event_type) \o <<"|">> \o date_normalized \o <<"|">>
                 \o Get(event, "professor", EMPTY) \o <<"|">>
                 \o Get(event, "description", EMPTY)

\* an identity that leaves the absence type out
IdString_NoAbsenceType(event, event_type) ==
    LET date_normalized == NormalizeDate(Get(event, "date", UNKNOWN))
    IN  IF event_type = "absence"
        THEN TypeString(event_type) \o <<"|">> \o date_normalized \o <<"|">>
                 \o Get(event, "subject", EMPTY)
        ELSE TypeString(event_type) \o <<"|">> \o date_normalized \o <<"|">>
                 \o Get(event, "professor", EMPTY) \o <<"|">>
                 \o Get(event, "description", EMPTY)

IdString(event, event_type) ==
    LET date_normalized == NormalizeDate(Get(event, "date", UNKNOWN))
    IN  IF event_type = "absence"
        THEN TypeString(event_type) \o <<"|">> \o date_normalized \o <<"|">>
                 \o Get(event, "subject", EMPTY) \o <<"|">>
                 \o Get(event, "absence_type", EMPTY)
        ELSE TypeString(event_type) \o <<"|">> \o date_normalized \o <<"|">>
                 \o Get(event, "professor", EMPTY) \o <<"|">>
                 \o Get(event, "description", EMPTY)

GenerateEventId(event, event_type) == Sha256Hex32(IdString(event, event_type))

----------------------------------------------------------------------------
(* Raw records the portal client can deliver *)

E1 == [date |-> D_DMY, subject |-> <<"M">>, absence_type |-> <<"U">>,
       description |-> <<"x">>, time |-> <<"1">>]
E2 == [date |-> D_YMD, subject |-> <<"M">>, absence_type |-> <<"U">>,
       description |-> <<"y">>, time |-> <<"2">>]
E3 == [date |-> D_DMY, professor |-> <<"P">>, description |-> <<"x">>]
E4 == [date |-> NUMBER, subject |-> <<"M">>, absence_type |-> <<"U">>]

RawEvents == {E1, E2, E3, E4}

SeqsUpTo(S, n) == UNION {[1..k -> S] : k \in 0..n}

PortalStates(n) ==
    {p \in [absences : SeqsUpTo(RawEvents, n),
            behavior_alerts : SeqsUpTo(RawEvents, n)] :
        Len(p.absences) + Len(p.behavior_alerts) <= n}

PortalBound == IF overlap THEN MaxBatch ELSE MaxBatchSeq

ErrorMessages == {"Login failed"}

RecipientConfigs == {<<>>, <<"parent@example.org">>}

----------------------------------------------------------------------------
(* Event store: models/database.py over Azure Table Storage *)

Exists(event_id) == \E e \in store : e.RowKey = event_id

Entity(event_id) == CHOOSE e \in store : e.RowKey = event_id

\* a create_entity that overwrites an existing entity (upsert)
CreateEntity_Upsert(entity) ==
    [raised |-> FALSE,
     store |-> {e \in store : e.RowKey # entity.RowKey} \cup {entity}]

\* TableClient.create_entity: inserts, or raises ResourceExistsError
CreateEntity(entity) ==
    IF Exists(entity.RowKey)
    THEN [raised |-> TRUE, store |-> store]
    ELSE [raised |-> FALSE, store |-> store \cup {entity}]

\* an update that replaces the entity by one holding only the flag
UpdateEntity_Replace(entity) ==
    {IF e.RowKey = entity.RowKey
     THEN [RowKey |-> entity.RowKey, event_type |-> "", date |-> EMPTY,
           description |-> EMPTY, raw_data |-> [json |-> <<>>],
           first_seen |-> 0, notified |-> TRUE]
     ELSE e : e \in store}

\* an update that sets the flag of every stored entity
UpdateEntity_All(entity) ==
    {[e EXCEPT !.notified = TRUE] : e \in store}

\* an update that flips the flag of the stored entity
UpdateEntity_Toggle(entity) ==
    {IF e.RowKey = entity.RowKey
     THEN [e EXCEPT !.notified = ~e.notified] ELSE e : e \in store}

\* TableClient.update_entity (merge): every property of the argument
\* overwrites the stored one
UpdateEntity(entity) ==
    {IF e.RowKey = entity.RowKey THEN entity ELSE e : e \in store}

\* is_new_event: any exception of get_entity counts as "new"
IsNewEvent(event_id, fault) == fault \/ ~Exists(event_id)

\* the entity save_event_record builds
NewEntity(event_id, event_type, date, description, raw_data, now) ==
    [RowKey |-> event_id, event_type |-> event_type, date |-> date,
     description |-> description, raw_data |-> raw_data,
     first_seen |-> now, notified |-> FALSE]

\* json.dumps(event): an opaque snapshot of the mapping
JsonDumps(event) == [json |-> event]

----------------------------------------------------------------------------
(* check_alerts: locals of one invocation *)

InitialResult ==
    [success |-> FALSE, new_absences |-> 0, new_behavior_alerts |-> 0,
     email_sent |-> FALSE, error |-> "None"]

NoScrape == [success |-> FALSE, error |-> "None",
             absences |-> <<>>, behavior_alerts |-> <<>>]

InitialRun ==
    [pc |-> "idle", result |-> InitialResult, scrape_results |-> NoScrape,
     events |-> <<>>, event_type |-> "absence", idx |-> 0,
     new_events |-> <<>>, new_absences |-> <<>>,
     new_behavior_alerts |-> <<>>, entity |-> <<>>, after |-> {},
     filtered |-> FALSE, exceptions |-> {}, failure_attempts |-> 0,
     unconsulted |-> {}, reported |-> {}, inserted |-> {}]

\* an except branch of check_alerts that sends no failure notification
Except_Silent(l, e) ==
    [l EXCEPT !.result.error = e, !.pc = "done"]

\* lines 89-98: the except branch of check_alerts
Except(l, e) ==
    [l EXCEPT !.result.error = e, !.pc = "failure_notification"]

\* lines 136-138: the loop of _filter_new_events reaches events[idx] and
\* derives its identity
EnterEvent(l) ==
    IF GenerateEventIdRaises(l.events[l.idx])
    THEN Except([l EXCEPT !.exceptions = @ \cup {"filter"}], "TypeError")
    ELSE [l EXCEPT !.pc = "is_new_event"]

\* check_alerts sending the alert email whatever the filters returned
AfterFilters_AlwaysNotify(l) ==
    [l EXCEPT !.result.new_absences = Len(l.new_absences),
              !.result.new_behavior_alerts = Len(l.new_behavior_alerts),
              !.events = <<>>, !.idx = 0, !.new_events = <<>>,
              !.entity = <<>>, !.filtered = TRUE, !.pc = "send_notification"]

\* check_alerts after both filters: counts, then notify or finish
AfterFilters(l) ==
    LET l2 == [l EXCEPT !.result.new_absences = Len(l.new_absences),
                        !.result.new_behavior_alerts = Len(l.new_behavior_alerts),
                        !.events = <<>>, !.idx = 0, !.new_events = <<>>,
                        !.entity = <<>>, !.filtered = TRUE]
    IN  IF l.new_absences # <<>> \/ l.new_behavior_alerts # <<>>
        THEN [l2 EXCEPT !.pc = "send_notification"]
        ELSE [l2 EXCEPT !.result.success = TRUE, !.pc = "done"]

\* _filter_new_events(all_alerts, "behavior_alert")
FilterAlerts(l) ==
    LET all_alerts == l.scrape_results.behavior_alerts
    IN  IF all_alerts = <<>>
        THEN AfterFilters([l EXCEPT !.new_behavior_alerts = <<>>])
        ELSE EnterEvent([l EXCEPT !.events = all_alerts,
                                  !.event_type = "behavior_alert",
                                  !.idx = 1, !.new_events = <<>>,
                                  !.entity = <<>>])

\* _filter_new_events(all_absences, "absence")
FilterAbsences(l) ==
    LET all_absences == l.scrape_results.absences
    IN  IF all_absences = <<>>
        THEN FilterAlerts([l EXCEPT !.new_absences = <<>>])
        ELSE EnterEvent([l EXCEPT !.events = all_absences,
                                  !.event_type = "absence",
                                  !.idx = 1, !.new_events = <<>>,
                                  !.entity = <<>>])

\* end of one iteration of the loop of _filter_new_events
NextEvent(l) ==
    IF l.idx < Len(l.events)
    THEN EnterEvent([l EXCEPT !.idx = @ + 1, !.entity = <<>>])
    ELSE IF l.event_type = "absence"
         THEN FilterAlerts([l EXCEPT !.new_absences = l.new_events])
         ELSE AfterFilters([l EXCEPT !.new_behavior_alerts = l.new_events])

CurrentEvent(l) == l.events[l.idx]

\* a filter that puts the newest event first
AppendNew_Front(new_events, event) == <<event>> \o new_events

\* line 154: new_events.append(event)
AppendNew(new_events, event) == Append(new_events, event)
CurrentId(l) == GenerateEventId(CurrentEvent(l), l.event_type)

\* _mark_events_notified: the list it walks and the identity it re-derives
MarkList(l) == l.new_absences \o l.new_behavior_alerts

InSeq(x, s) == \E i \in 1..Len(s) : s[i] = x

MarkType(l, event) ==
    IF InSeq(event, l.new_absences) THEN "absence" ELSE "behavior_alert"

MarkId(l) == GenerateEventId(MarkList(l)[l.idx], MarkType(l, MarkList(l)[l.idx]))

\* end of one iteration of the loop of _mark_events_notified
NextMark(l) ==
    IF l.idx < Len(MarkList(l))
    THEN [l EXCEPT !.idx = @ + 1, !.entity = <<>>, !.pc = "mark_get_entity"]
    ELSE [l EXCEPT !.idx = 0, !.entity = <<>>, !.result.success = TRUE,
                   !.pc = "done"]

\* a storage call may raise a transient error
Fault(fault) ==
    /\ fault => faults < MaxFaults
    /\ faults' = IF fault THEN faults + 1 ELSE faults

----------------------------------------------------------------------------
(* Initial state *)

NoFn == [op |-> "none"]

Init ==
    /\ store = {}
    /\ clock = 1
    /\ recipients \in RecipientConfigs
    /\ faults = 0
    /\ run = [r \in Runs |-> InitialRun]
    /\ alert_calls = {}
    /\ failure_calls = [r \in Runs |-> 0]
    /\ created = {}
    /\ saved = {}
    /\ declined = {}
    /\ marked = {}
    /\ overlap \in BOOLEAN
    /\ portal \in PortalStates(PortalBound)
    /\ fn = NoFn

config == <<recipients, overlap, fn>>
saves == <<created, saved, declined>>
emails == <<alert_calls, failure_calls>>

Local(r, l) == run' = [run EXCEPT ![r] = l]

PastFilters(l) == l.filtered

\* the locals after a call that raised (fault) at the given stage
Raised(l, stage, fault) ==
    IF fault THEN [l EXCEPT !.exceptions = @ \cup {stage}] ELSE l

\* the position of the current record: category and index in the batch
Position(l) == <<l.event_type, l.idx>>

\* the locals after an existence check of the current record
Checked(l, fault) ==
    IF fault
    THEN [l EXCEPT !.exceptions = @ \cup {"filter_storage"},
                   !.unconsulted = @ \cup {Position(l)}]
    ELSE l

Declined(r, event_id, why) ==
    declined' = declined \cup {[run |-> r, RowKey |-> event_id, why |-> why]}

----------------------------------------------------------------------------
(* check_alerts *)

\* a failed fetch whose records are filtered all the same
FetchFailed_PartialFilter(l, scrape_results) ==
    FilterAbsences([l EXCEPT !.scrape_results = scrape_results,
                             !.result.error = scrape_results.error])

\* a fetch failure reported with a fixed message
FetchFailed_FixedMessage(l, scrape_results) ==
    [l EXCEPT !.scrape_results = scrape_results,
              !.result.error = "Scraping failed",
              !.pc = "failure_notification"]

\* lines 43-47: the fetch reported failure
FetchFailed(l, scrape_results) ==
    [l EXCEPT !.scrape_results = scrape_results,
              !.result.error = scrape_results.error,
              !.pc = "failure_notification"]

\* a failed alert email handled as an unexpected error of the invocation
AfterNotification_FailureOnError(l, email_sent) ==
    IF email_sent /\ MarkList(l) # <<>>
    THEN [l EXCEPT !.result.email_sent = TRUE, !.idx = 1,
                   !.pc = "mark_get_entity"]
    ELSE IF email_sent
         THEN [l EXCEPT !.result.email_sent = TRUE, !.result.success = TRUE,
                        !.pc = "done"]
         ELSE Except(l, "notify error")

\* a failed alert email that leaves success at False
AfterNotification_FailRun(l, email_sent) ==
    IF email_sent /\ MarkList(l) # <<>>
    THEN [l EXCEPT !.result.email_sent = TRUE, !.idx = 1,
                   !.pc = "mark_get_entity"]
    ELSE [l EXCEPT !.result.email_sent = email_sent,
                   !.result.success = email_sent, !.pc = "done"]

\* marking the events as notified whatever _send_notification returned
AfterNotification_AlwaysMark(l, email_sent) ==
    IF MarkList(l) # <<>>
    THEN [l EXCEPT !.result.email_sent = email_sent, !.idx = 1,
                   !.pc = "mark_get_entity"]
    ELSE [l EXCEPT !.result.email_sent = email_sent,
                   !.result.success = TRUE, !.pc = "done"]

\* lines 78-87: after _send_notification returned email_sent
AfterNotification(l, email_sent) ==
    IF email_sent /\ MarkList(l) # <<>>
    THEN [l EXCEPT !.result.email_sent = TRUE, !.idx = 1,
                   !.pc = "mark_get_entity"]
    ELSE [l EXCEPT !.result.email_sent = email_sent, !.result.success = TRUE,
                   !.pc = "done"]

\* lines 34-37: init_db()
InitDb(r) ==
    /\ run[r].pc = "idle"
    /\ \A q \in Runs : q < r => run[q].pc # "idle"
    /\ overlap \/ \A q \in Runs \ {r} : run[q].pc \in {"idle", "done"}
    /\ \E fault \in BOOLEAN :
        /\ Fault(fault)
        /\ IF fault
           THEN Local(r, Except(Raised(run[r], "init", TRUE),
                                "storage error"))
           ELSE Local(r, [run[r] EXCEPT !.pc = "scrape_portal"])
    /\ UNCHANGED <<store, clock, portal, config, saves, emails, marked>>

\* lines 41, 56-59: the fetch reports success, filtering starts
ScrapeSucceeds(r) ==
    /\ run[r].pc = "scrape_portal"
    /\ LET scrape_results == [success |-> TRUE, error |-> "None",
                              absences |-> portal.absences,
                              behavior_alerts |-> portal.behavior_alerts]
           finished == {q \in Runs \ {r} : PastFilters(run[q])}
       IN  Local(r, FilterAbsences([run[r] EXCEPT
                        !.scrape_results = scrape_results,
                        !.after = finished]))
    /\ UNCHANGED <<store, clock, faults, portal, config, saves, emails,
                   marked>>

Categories == {"absences", "behavior_alerts"}

\* scraper_lightweight.py lines 292-334, 343-385 and 406-412: after a
\* login that succeeded, get_absences or get_behavior_alerts catches its
\* error and returns [], and scrape_all reports success
ScrapeLosesCategory(r) ==
    /\ run[r].pc = "scrape_portal"
    /\ Fault(TRUE)
    /\ \E lost \in SUBSET Categories \ {{}} :
        LET scrape_results ==
                [success |-> TRUE, error |-> "None",
                 absences |-> IF "absences" \in lost THEN <<>>
                              ELSE portal.absences,
                 behavior_alerts |-> IF "behavior_alerts" \in lost THEN <<>>
                                     ELSE portal.behavior_alerts]
            finished == {q \in Runs \ {r} : PastFilters(run[q])}
        IN  Local(r, FilterAbsences([Raised(run[r], "retrieval", TRUE) EXCEPT
                         !.scrape_results = scrape_results,
                         !.after = finished]))
    /\ UNCHANGED <<store, clock, portal, config, saves, emails, marked>>

\* lines 41-47: the fetch reports failure
ScrapeFails(r) ==
    /\ run[r].pc = "scrape_portal"
    /\ \E msg \in ErrorMessages, carried \in BOOLEAN :
        LET scrape_results ==
                [success |-> FALSE, error |-> msg,
                 absences |-> IF carried THEN portal.absences ELSE <<>>,
                 behavior_alerts |-> IF carried THEN portal.behavior_alerts
                                     ELSE <<>>]
        IN  Local(r, FetchFailed(Raised(run[r], "fetch", TRUE),
                                 scrape_results))
    /\ UNCHANGED <<store, clock, faults, portal, config, saves, emails,
                   marked>>

\* lines 48-54 and 93-100: _send_failure_notification, then return result
SendFailureNotification(r) ==
    /\ run[r].pc = "failure_notification"
    /\ failure_calls' =
           IF recipients = <<>> THEN failure_calls
           ELSE [failure_calls EXCEPT ![r] = @ + 1]
    /\ Local(r, [run[r] EXCEPT !.failure_attempts = @ + 1, !.pc = "done"])
    /\ UNCHANGED <<store, clock, faults, portal, config, saves, alert_calls,
                   marked>>

----------------------------------------------------------------------------
(* _filter_new_events and save_event_record, one storage call per step *)

\* alert_checker.py line 146: is_new_event(event_id)
FilterIsNewEvent(r) ==
    /\ run[r].pc = "is_new_event"
    /\ \E fault \in BOOLEAN :
        /\ Fault(fault)
        /\ IF IsNewEvent(CurrentId(run[r]), fault)
           THEN Local(r, [Checked(run[r], fault) EXCEPT
                             !.pc = "save_is_new_event"])
           ELSE Local(r, NextEvent(run[r]))
    /\ UNCHANGED <<store, clock, portal, config, saves, emails, marked>>

\* database.py lines 61-77: the second existence check, then the entity
SaveIsNewEvent(r) ==
    /\ run[r].pc = "save_is_new_event"
    /\ \E fault \in BOOLEAN :
        /\ Fault(fault)
        /\ IF IsNewEvent(CurrentId(run[r]), fault)
           THEN LET event == CurrentEvent(run[r])
                    entity == NewEntity(CurrentId(run[r]), run[r].event_type,
                                        Get(event, "date", TODAY),
                                        Get(event, "description", EMPTY),
                                        JsonDumps(event), clock)
                IN  /\ Local(r, [Checked(run[r], fault) EXCEPT
                                      !.entity = <<entity>>,
                                      !.pc = "create_entity"])
                    /\ clock' = clock + 1
                    /\ declined' = declined
           ELSE /\ Local(r, NextEvent(run[r]))
                /\ clock' = clock
                /\ Declined(r, CurrentId(run[r]), "exists")
    /\ UNCHANGED <<store, portal, config, created, saved, emails, marked>>

\* database.py lines 78, 89-95: create_entity
SaveCreateEntity(r) ==
    /\ run[r].pc = "create_entity"
    /\ \E fault \in BOOLEAN :
        /\ Fault(fault)
        /\ LET entity == run[r].entity[1]
               outcome == CreateEntity(entity)
           IN  IF fault
               THEN /\ store' = store
                    /\ created' = created
                    /\ Declined(r, entity.RowKey, "error")
                    /\ Local(r, NextEvent(Raised(run[r], "filter_storage",
                                                 TRUE)))
               ELSE /\ store' = outcome.store
                    /\ IF outcome.raised
                       THEN /\ created' = created
                            /\ Declined(r, entity.RowKey, "conflict")
                            /\ Local(r, NextEvent(run[r]))
                       ELSE /\ created' = created \cup
                                   {[run |-> r, RowKey |-> entity.RowKey,
                                     first_seen |-> entity.first_seen]}
                            /\ declined' = declined
                            /\ Local(r, [run[r] EXCEPT
                                   !.inserted = @ \cup {Position(run[r])},
                                   !.pc = "verify_write"])
    /\ UNCHANGED <<clock, portal, config, saved, emails, marked>>

\* database.py lines 80-87 and alert_checker.py lines 154-158
SaveVerifyWrite(r) ==
    /\ run[r].pc = "verify_write"
    /\ \E fault \in BOOLEAN :
        /\ Fault(fault)
        /\ LET entity == run[r].entity[1]
           IN  IF fault \/ ~Exists(entity.RowKey)
               THEN /\ saved' = saved
                    /\ Declined(r, entity.RowKey, "unverified")
                    /\ Local(r, NextEvent(Raised(run[r], "filter_storage",
                                                 fault)))
               ELSE /\ saved' = saved \cup
                            {[run |-> r, RowKey |-> entity.RowKey,
                              first_seen |-> entity.first_seen]}
                    /\ declined' = declined
                    /\ Local(r, NextEvent([run[r] EXCEPT
                                   !.new_events =
                                       AppendNew(@, CurrentEvent(run[r])),
                                   !.reported = @ \cup {Position(run[r])}]))
    /\ UNCHANGED <<store, clock, portal, config, created, emails, marked>>

----------------------------------------------------------------------------
(* notification and marking *)

\* lines 76-85 with _send_notification
SendNotification(r) ==
    /\ run[r].pc = "send_notification"
    /\ IF recipients = <<>>
       THEN /\ alert_calls' = alert_calls
            /\ Local(r, AfterNotification(run[r], FALSE))
       ELSE \E email_sent \in BOOLEAN :
            /\ alert_calls' = alert_calls \cup
                   {[run |-> r, absences |-> run[r].new_absences,
                     behavior_alerts |-> run[r].new_behavior_alerts,
                     ok |-> email_sent]}
            /\ Local(r, AfterNotification(
                            Raised(run[r], "notify", ~email_sent),
                            email_sent))
    /\ UNCHANGED <<store, clock, faults, portal, config, saves,
                   failure_calls, marked>>

\* database.py lines 100-103: get_entity, set notified on the copy.
\* _get_table_client (line 100, outside the try) returns the client that
\* init_db cached at the start of the invocation, so it does not raise.
MarkGetEntity(r) ==
    /\ run[r].pc = "mark_get_entity"
    /\ \E fault \in BOOLEAN :
        /\ Fault(fault)
        /\ IF fault \/ ~Exists(MarkId(run[r]))
           THEN Local(r, NextMark(Raised(run[r], "mark", TRUE)))
           ELSE Local(r, [run[r] EXCEPT
                    !.entity = <<[Entity(MarkId(run[r])) EXCEPT
                                     !.notified = TRUE]>>,
                    !.pc = "mark_update_entity"])
    /\ UNCHANGED <<store, clock, portal, config, saves, emails, marked>>

\* database.py lines 104-107: update_entity
MarkUpdateEntity(r) ==
    /\ run[r].pc = "mark_update_entity"
    /\ \E fault \in BOOLEAN :
        /\ Fault(fault)
        /\ LET entity == run[r].entity[1]
           IN  IF fault \/ ~Exists(entity.RowKey)
               THEN /\ store' = store
                    /\ marked' = marked
               ELSE /\ store' = UpdateEntity(entity)
                    /\ marked' = marked \cup
                           {[run |-> r, RowKey |-> entity.RowKey]}
        /\ Local(r, NextMark(Raised(run[r], "mark", fault \/
                        ~Exists(run[r].entity[1].RowKey))))
    /\ UNCHANGED <<clock, portal, config, saves, emails>>

----------------------------------------------------------------------------
(* the portal between invocations: a new record appears *)

PortalChanges ==
    /\ \A r \in Runs : run[r].pc \in {"idle", "done"}
    /\ \E r \in Runs : run[r].pc = "done"
    /\ \E r \in Runs : run[r].pc = "idle"
    /\ Len(portal.absences) + Len(portal.behavior_alerts) < PortalBound
    /\ \E e \in RawEvents :
        \/ portal' = [portal EXCEPT !.absences = Append(@, e)]
        \/ portal' = [portal EXCEPT !.behavior_alerts = Append(@, e)]
    /\ UNCHANGED <<store, clock, faults, run, config, saves, emails, marked>>

Next ==
    \/ \E r \in Runs : InitDb(r)
    \/ \E r \in Runs : ScrapeSucceeds(r)
    \/ \E r \in Runs : ScrapeLosesCategory(r)
    \/ \E r \in Runs : ScrapeFails(r)
    \/ \E r \in Runs : SendFailureNotification(r)
    \/ \E r \in Runs : FilterIsNewEvent(r)
    \/ \E r \in Runs : SaveIsNewEvent(r)
    \/ \E r \in Runs : SaveCreateEntity(r)
    \/ \E r \in Runs : SaveVerifyWrite(r)
    \/ \E r \in Runs : SendNotification(r)
    \/ \E r \in Runs : MarkGetEntity(r)
    \/ \E r \in Runs : MarkUpdateEntity(r)
    \/ PortalChanges

Spec == Init /\ [][Next]_vars

----------------------------------------------------------------------------
(* _generate_event_id applied to pairs of raw records *)

ABSENT == <<"(absent)">>

IdFieldValues ==
    [date : {D_DMY, D_YMD, UNKNOWN, ABSENT},
     subject : {<<"M">>, EMPTY, ABSENT},
     absence_type : {<<"U">>, <<"J">>, EMPTY, ABSENT},
     professor : {<<"P">>, ABSENT},
     description : {<<"x">>, <<"y">>, ABSENT}]

\* the mapping that holds the keys of f that are not absent
Mapping(f) == [k \in {k \in DOMAIN f : f[k] # ABSENT} |-> f[k]]

IdEvents == {Mapping(f) : f \in IdFieldValues}

EventTypes == {"absence", "behavior_alert"}

InitId ==
    /\ store = {}
    /\ clock = 1
    /\ recipients = <<>>
    /\ faults = 0
    /\ run = [r \in Runs |-> InitialRun]
    /\ alert_calls = {}
    /\ failure_calls = [r \in Runs |-> 0]
    /\ created = {}
    /\ saved = {}
    /\ declined = {}
    /\ marked = {}
    /\ overlap = FALSE
    /\ portal = [absences |-> <<>>, behavior_alerts |-> <<>>]
    /\ fn \in [op : {"input"}, r1 : IdEvents, r2 : IdEvents,
               event_type : EventTypes]

GenerateEventIds ==
    /\ fn.op = "input"
    /\ fn' = [op |-> "generate_event_id", r1 |-> fn.r1, r2 |-> fn.r2,
              event_type |-> fn.event_type,
              id1 |-> GenerateEventId(fn.r1, fn.event_type),
              id2 |-> GenerateEventId(fn.r2, fn.event_type)]
    /\ UNCHANGED <<store, clock, recipients, faults, run, alert_calls,
                   failure_calls, created, saved, declined, marked, portal,
                   overlap>>

NextId == GenerateEventIds

SpecId == InitId /\ [][NextId]_vars

----------------------------------------------------------------------------
(* the state the pure functions below run in: no invocation is active *)

NoInvocation ==
    /\ store = {}
    /\ clock = 1
    /\ recipients = <<>>
    /\ faults = 0
    /\ run = [r \in Runs |-> InitialRun]
    /\ alert_calls = {}
    /\ failure_calls = [r \in Runs |-> 0]
    /\ created = {}
    /\ saved = {}
    /\ declined = {}
    /\ marked = {}
    /\ overlap = FALSE
    /\ portal = [absences |-> <<>>, behavior_alerts |-> <<>>]

OnlyFn == UNCHANGED <<store, clock, recipients, faults, run, alert_calls,
                      failure_calls, created, saved, declined, marked,
                      portal, overlap>>

----------------------------------------------------------------------------
(* _normalize_date applied to date strings, and to its own result *)

DateChars == {"1", "2", "-"}

DateStrings ==
    SeqsUpTo(DateChars, MaxDateLen)
        \cup {D_DMY, D_YMD, D_DMYY, UNKNOWN, EMPTY}

InitDate ==
    /\ NoInvocation
    /\ fn \in [op : {"date_input"}, date_str : DateStrings]

NormalizeDates ==
    /\ fn.op = "date_input"
    /\ fn' = [op |-> "normalize_date", date_str |-> fn.date_str,
              once |-> NormalizeDate(fn.date_str),
              twice |-> NormalizeDate(NormalizeDate(fn.date_str))]
    /\ OnlyFn

NextDate == NormalizeDates

SpecDate == InitDate /\ [][NextDate]_vars

----------------------------------------------------------------------------
(* _generate_event_id applied to one raw record, any value in date *)

TotalFieldValues ==
    [date : {D_DMY, D_YMD, UNKNOWN, EMPTY, NUMBER, ABSENT},
     subject : {<<"M">>, EMPTY, ABSENT},
     absence_type : {<<"U">>, EMPTY, ABSENT},
     professor : {<<"P">>, EMPTY, ABSENT},
     description : {<<"x">>, EMPTY, ABSENT}]

TotalEvents == {Mapping(f) : f \in TotalFieldValues}

\* the discriminator fields of lines 179-188
Discriminators(event_type) ==
    IF event_type = "absence" THEN {"subject", "absence_type"}
    ELSE {"professor", "description"}

\* the record with its missing discriminator fields set to ""
Filled(event, event_type) ==
    [k \in DOMAIN event \cup Discriminators(event_type) |->
        IF k \in DOMAIN event THEN event[k] ELSE EMPTY]

InitTotal ==
    /\ NoInvocation
    /\ fn \in [op : {"record_input"}, event : TotalEvents,
               event_type : EventTypes]

GenerateEventIdOnce ==
    /\ fn.op = "record_input"
    /\ fn' = [op |-> "generate_event_id_once", event |-> fn.event,
              event_type |-> fn.event_type,
              raised |-> GenerateEventIdRaises(fn.event),
              id |-> IF GenerateEventIdRaises(fn.event) THEN <<>>
                     ELSE <<GenerateEventId(fn.event, fn.event_type)>>,
              id_filled |->
                  IF GenerateEventIdRaises(fn.event) THEN <<>>
                  ELSE <<GenerateEventId(Filled(fn.event, fn.event_type),
                                         fn.event_type)>>]
    /\ OnlyFn

NextTotal == GenerateEventIdOnce

SpecTotal == InitTotal /\ [][NextTotal]_vars

----------------------------------------------------------------------------
(* _mark_events_notified over any store: the invocation has sent its alert
   email and starts marking; the store holds, marked or not, any of the
   records *)

MarkEvents == {E1, E3}

\* an entity as save_event_record wrote it, with the given flag
StoredEntity(event, event_type, notified) ==
    [NewEntity(GenerateEventId(event, event_type), event_type,
               Get(event, "date", TODAY), Get(event, "description", EMPTY),
               JsonDumps(event), 0) EXCEPT !.notified = notified]

StoredEntities ==
    {StoredEntity(e, t, n) : e \in MarkEvents, t \in EventTypes,
                             n \in BOOLEAN}

\* stores with at most one entity per RowKey
MarkStores ==
    {S \in SUBSET StoredEntities :
        \A e1, e2 \in S : e1.RowKey = e2.RowKey => e1 = e2}

MarkingRun(new_absences) ==
    [InitialRun EXCEPT !.pc = "mark_get_entity", !.idx = 1,
                       !.filtered = TRUE,
                       !.new_absences = new_absences,
                       !.result.new_absences = Len(new_absences),
                       !.result.email_sent = TRUE]

InitMark ==
    /\ store \in MarkStores
    /\ clock = 1
    /\ recipients \in RecipientConfigs \ {<<>>}
    /\ faults = 0
    /\ \E new_absences \in SeqsUpTo(MarkEvents, MaxBatchSeq + 1) \ {<<>>} :
        run = [r \in Runs |-> IF r = 1 THEN MarkingRun(new_absences)
                              ELSE InitialRun]
    /\ alert_calls = {}
    /\ failure_calls = [r \in Runs |-> 0]
    /\ created = {}
    /\ saved = {}
    /\ declined = {}
    /\ marked = {}
    /\ overlap = FALSE
    /\ portal = [absences |-> <<>>, behavior_alerts |-> <<>>]
    /\ fn = [op |-> "mark", before |-> store]

NextMarking ==
    \/ \E r \in Runs : MarkGetEntity(r)
    \/ \E r \in Runs : MarkUpdateEntity(r)

SpecMark == InitMark /\ [][NextMarking]_vars

----------------------------------------------------------------------------
(* the id_string of _generate_event_id for two records whose discriminator
   values may hold the delimiter *)

DelimChars == {"M", "|"}

DelimStrings == SeqsUpTo(DelimChars, MaxFieldLen)

\* a raw record of the category with the two discriminator values
DelimEvent(event_type, field1, field2) ==
    IF event_type = "absence"
    THEN [date |-> D_DMY, subject |-> field1, absence_type |-> field2]
    ELSE [date |-> D_DMY, professor |-> field1, description |-> field2]

\* the values lines 175-188 read from the record
IdTuple(event, event_type) ==
    IF event_type = "absence"
    THEN <<event_type, NormalizeDate(Get(event, "date", UNKNOWN)),
           Get(event, "subject", EMPTY), Get(event, "absence_type", EMPTY)>>
    ELSE <<event_type, NormalizeDate(Get(event, "date", UNKNOWN)),
           Get(event, "professor", EMPTY), Get(event, "description", EMPTY)>>

InitDelim ==
    /\ NoInvocation
    /\ fn \in [op : {"fields_input"}, event_type : EventTypes,
               a1 : DelimStrings, a2 : DelimStrings,
               b1 : DelimStrings, b2 : DelimStrings]

IdStrings ==
    /\ fn.op = "fields_input"
    /\ LET r1 == DelimEvent(fn.event_type, fn.a1, fn.a2)
           r2 == DelimEvent(fn.event_type, fn.b1, fn.b2)
       IN  fn' = [op |-> "id_strings", event_type |-> fn.event_type,
                  tuple1 |-> IdTuple(r1, fn.event_type),
                  tuple2 |-> IdTuple(r2, fn.event_type),
                  id_string1 |-> IdString(r1, fn.event_type),
                  id_string2 |-> IdString(r2, fn.event_type),
                  id1 |-> GenerateEventId(r1, fn.event_type),
                  id2 |-> GenerateEventId(r2, fn.event_type)]
    /\ OnlyFn

NextDelim == IdStrings

SpecDelim == InitDelim /\ [][NextDelim]_vars

----------------------------------------------------------------------------
(* Properties *)

\* identities of the events in the lists of one send_alert_email call
IdsOf(call) ==
    {GenerateEventId(call.absences[i], "absence") :
        i \in 1..Len(call.absences)}
    \cup {GenerateEventId(call.behavior_alerts[i], "behavior_alert") :
        i \in 1..Len(call.behavior_alerts)}

\* C1: whatever the interleaving of the invocations, an event identity is in
\* the lists of the alert email of at most one invocation, and
\* save_event_record returned True for it in at most one invocation.
C1_OneRunPerIdentity ==
    /\ \A c1 \in alert_calls, c2 \in alert_calls :
        c1.run # c2.run => IdsOf(c1) \cap IdsOf(c2) = {}
    /\ \A s1 \in saved, s2 \in saved :
        s1.RowKey = s2.RowKey => s1.run = s2.run

\* two overlapping invocations raced on one identity: one of them put it
\* in its alert email, the other one lost the race at create_entity
C1_Witness ==
    \E c \in alert_calls, d \in declined :
        /\ overlap /\ faults = 0
        /\ d.run # c.run /\ d.why = "conflict"
        /\ d.RowKey \in IdsOf(c)
        /\ d.run \notin run[c.run].after
        /\ c.run \notin run[d.run].after
        /\ run[d.run].pc = "done"

\* C2: for every identity save_event_record returns True at most once; the
\* store holds exactly one entity for an identity that was inserted, and its
\* first_seen is the one the inserting call wrote.
C2_InsertAtMostOnce ==
    /\ \A s1 \in saved, s2 \in saved : s1.RowKey = s2.RowKey => s1 = s2
    /\ saved \subseteq created
    /\ \A c \in created :
        /\ Cardinality({e \in store : e.RowKey = c.RowKey}) = 1
        /\ \A e \in store : e.RowKey = c.RowKey => e.first_seen = c.first_seen

\* a second caller built its own entity for an identity and was declined
\* with a conflict, without any storage error
C2_Witness ==
    \E s \in saved, d \in declined :
        /\ faults = 0
        /\ d.RowKey = s.RowKey /\ d.run # s.run /\ d.why = "conflict"
        /\ \E e \in store : e.RowKey = s.RowKey /\ e.first_seen = s.first_seen

\* C3: when an invocation has ended, every entity it created is the
\* identity of an event in the lists of an alert email it attempted.
C3_NoEventLost ==
    \A r \in Runs : run[r].pc = "done" =>
        \A c \in created : c.run = r =>
            \E a \in alert_calls : a.run = r /\ c.RowKey \in IdsOf(a)

\* C4: an entity with notified = True is the identity of an event in the
\* lists of an alert email that reported success, and every write of the
\* flag is by an invocation whose own alert email reported success.
C4_NotifiedOnlyAfterSuccess ==
    /\ \A e \in store : e.notified =>
        \E a \in alert_calls : a.ok /\ e.RowKey \in IdsOf(a)
    /\ \A m \in marked :
        \E a \in alert_calls : a.run = m.run /\ a.ok /\ m.RowKey \in IdsOf(a)

\* one entity marked after a successful email, another one left unmarked
\* after a failed email
C4_Witness ==
    \E e1 \in store, e2 \in store, a \in alert_calls :
        /\ e1.notified /\ ~e2.notified
        /\ ~a.ok /\ e2.RowKey \in IdsOf(a)

\* C5: every step keeps every entity, with the values its creation wrote,
\* except that notified may go from False to True.
C5_OnlyNotifiedChanges ==
    [][\A e \in store : \E e2 \in store' :
           /\ e2.RowKey = e.RowKey
           /\ e2.event_type = e.event_type
           /\ e2.date = e.date
           /\ e2.description = e.description
           /\ e2.raw_data = e.raw_data
           /\ e2.first_seen = e.first_seen
           /\ (e.notified => e2.notified)]_vars

\* an entity was marked and a duplicate insert of it was declined
C5_Witness ==
    \E e \in store, d \in declined, m \in marked :
        /\ e.notified /\ d.RowKey = e.RowKey /\ m.RowKey = e.RowKey

\* C6: two raw records of one category with equal normalized dates and
\* equal discriminator fields get the same identity, whatever their other
\* fields hold.
C6_IdentityStability ==
    (fn.op = "generate_event_id"
       /\ NormalizeDate(Get(fn.r1, "date", UNKNOWN))
            = NormalizeDate(Get(fn.r2, "date", UNKNOWN))
       /\ IF fn.event_type = "absence"
          THEN /\ Get(fn.r1, "subject", EMPTY) = Get(fn.r2, "subject", EMPTY)
               /\ Get(fn.r1, "absence_type", EMPTY)
                    = Get(fn.r2, "absence_type", EMPTY)
          ELSE /\ Get(fn.r1, "professor", EMPTY) = Get(fn.r2, "professor", EMPTY)
               /\ Get(fn.r1, "description", EMPTY)
                    = Get(fn.r2, "description", EMPTY))
    => fn.id1 = fn.id2

\* the same absence given once as DD-MM-YYYY and once as YYYY-MM-DD, with
\* different descriptions
C6_Witness ==
    /\ fn.op = "generate_event_id" /\ fn.event_type = "absence"
    /\ Get(fn.r1, "date", UNKNOWN) = D_DMY
    /\ Get(fn.r2, "date", UNKNOWN) = D_YMD
    /\ Get(fn.r1, "subject", EMPTY) = <<"M">>
    /\ Get(fn.r2, "subject", EMPTY) = <<"M">>
    /\ Get(fn.r1, "absence_type", EMPTY) = <<"U">>
    /\ Get(fn.r2, "absence_type", EMPTY) = <<"U">>
    /\ Get(fn.r1, "description", EMPTY) # Get(fn.r2, "description", EMPTY)
    /\ fn.id1 = fn.id2

\* the keys other than absence_type, with their values
Others(event) ==
    [k \in DOMAIN event \ {"absence_type"} |-> event[k]]

\* C7: two absence records that differ only in absence_type (a missing
\* field counting as the empty string) get different identities.
C7_IdentityDiscrimination ==
    (fn.op = "generate_event_id" /\ fn.event_type = "absence"
       /\ Others(fn.r1) = Others(fn.r2)
       /\ Get(fn.r1, "absence_type", EMPTY) # Get(fn.r2, "absence_type", EMPTY))
    => fn.id1 # fn.id2

\* the same absence once unjustified and once justified
C7_Witness ==
    /\ fn.op = "generate_event_id" /\ fn.event_type = "absence"
    /\ Others(fn.r1) = Others(fn.r2)
    /\ "date" \in DOMAIN fn.r1 /\ "subject" \in DOMAIN fn.r1
    /\ Get(fn.r1, "absence_type", EMPTY) = <<"U">>
    /\ Get(fn.r2, "absence_type", EMPTY) = <<"J">>
    /\ fn.id1 # fn.id2

\* C8: an invocation that filters the batch an earlier, finished invocation
\* has filtered gets two empty lists, sends no alert email and reports
\* email_sent = False.
C8_SecondFilterEmpty ==
    \A r \in Runs : \A q \in run[r].after :
        (PastFilters(run[r])
           /\ run[q].scrape_results = run[r].scrape_results)
        => /\ run[r].new_absences = <<>>
           /\ run[r].new_behavior_alerts = <<>>
           /\ ~run[r].result.email_sent
           /\ \A a \in alert_calls : a.run # r

\* C9: an invocation whose fetch succeeded and whose filtered lists are both
\* empty ends with success = True and email_sent = False, and
\* send_alert_email is never called with two empty lists.
C9_NoOpOnEmptyNovelty ==
    /\ \A r \in Runs :
        (run[r].pc = "done" /\ run[r].scrape_results.success
           /\ run[r].filtered
           /\ run[r].new_absences = <<>> /\ run[r].new_behavior_alerts = <<>>)
        => /\ run[r].result.success
           /\ ~run[r].result.email_sent
           /\ run[r].result.error = "None"
           /\ \A a \in alert_calls : a.run # r
    /\ \A a \in alert_calls : a.absences # <<>> \/ a.behavior_alerts # <<>>

\* an invocation fetched records, found all of them in the store and ended
C9_Witness ==
    \E r \in Runs :
        /\ run[r].pc = "done" /\ run[r].scrape_results.success
        /\ run[r].filtered
        /\ run[r].scrape_results.absences # <<>>
        /\ run[r].new_absences = <<>> /\ run[r].new_behavior_alerts = <<>>
        /\ faults = 0 /\ recipients # <<>>
        /\ run[r].result.success

FetchFailedRuns ==
    {r \in Runs : /\ run[r].pc = "done"
                  /\ ~run[r].scrape_results.success
                  /\ run[r].scrape_results.error \in ErrorMessages}

\* C10 as stated: an invocation whose fetch failed with a message returns
\* success = False and that message, and send_failure_email is called
\* exactly once in it.
C10_FailureEmailOnce ==
    \A r \in FetchFailedRuns :
        /\ ~run[r].result.success
        /\ run[r].result.error = run[r].scrape_results.error
        /\ failure_calls[r] = 1

\* C10 amended: send_failure_email is called exactly once when a recipient
\* is configured, and not at all when none is.
C10_FailureEmailOnceIfRecipients ==
    \A r \in FetchFailedRuns :
        /\ ~run[r].result.success
        /\ run[r].result.error = run[r].scrape_results.error
        /\ failure_calls[r] = IF recipients = <<>> THEN 0 ELSE 1

\* a failed fetch with a recipient configured
C10_Witness ==
    \E r \in FetchFailedRuns :
        /\ recipients # <<>>
        /\ run[r].result.error = "Login failed"
        /\ failure_calls[r] = 1

Results ==
    [success : BOOLEAN, new_absences : Nat, new_behavior_alerts : Nat,
     email_sent : BOOLEAN,
     error : {"None", "storage error", "TypeError"} \cup ErrorMessages]

\* the stages whose exceptions reach the fetch-failure or the except branch
\* of check_alerts
FailingStages == {"init", "fetch", "filter"}

C12_FailureEmailAtMostOnce ==
    \A r \in Runs :
        /\ failure_calls[r] <= 1
        /\ run[r].failure_attempts <= 1
        /\ failure_calls[r] >= 1 =>
            /\ ~run[r].result.success
            /\ \A a \in alert_calls : a.run # r

\* an invocation sent its failure email after its filter had persisted a
\* record
C12_Witness ==
    \E r \in Runs :
        /\ failure_calls[r] = 1 /\ run[r].pc = "done"
        /\ ~run[r].result.success
        /\ \E c \in created : c.run = r

\* C13: an invocation whose alert email failed returns success = True and
\* email_sent = False and sends no failure notification.
C13_NotifyErrorKeepsSuccess ==
    \A a \in alert_calls :
        (~a.ok /\ run[a.run].pc = "done")
        => /\ run[a.run].result.success
           /\ ~run[a.run].result.email_sent
           /\ run[a.run].result.error = "None"
           /\ run[a.run].failure_attempts = 0
           /\ failure_calls[a.run] = 0

\* an invocation found new events, its alert email failed and it ended
C13_Witness ==
    \E a \in alert_calls :
        /\ ~a.ok /\ run[a.run].pc = "done"
        /\ run[a.run].result.new_absences + run[a.run].result.new_behavior_alerts >= 1
        /\ run[a.run].result.success /\ ~run[a.run].result.email_sent

\* C14: an invocation in which a storage call of the filter raised ends as
\* a failed run, with success = False and a failure notification.
C14_StorageErrorFailsRun ==
    \A r \in Runs :
        (run[r].pc = "done" /\ "filter_storage" \in run[r].exceptions)
        => /\ ~run[r].result.success
           /\ run[r].failure_attempts = 1

\* C15: a record whose existence check raised is not reported as new by
\* the filter, so no alert email of the invocation covers it.
C15_NeverFailsOpen ==
    \A r \in Runs : run[r].unconsulted \cap run[r].reported = {}

\* identities of the events an invocation's filters returned
RunIds(r) ==
    IdsOf([absences |-> run[r].new_absences,
           behavior_alerts |-> run[r].new_behavior_alerts])

\* invocations that found new events and sent no alert email successfully
FailedEmailRuns ==
    {r \in Runs : /\ run[r].pc = "done" /\ run[r].filtered
                  /\ ~run[r].result.email_sent
                  /\ RunIds(r) # {}}

\* C16: the events of an invocation whose alert email failed stay in the
\* store with notified = False; no other invocation puts them in an alert
\* email or marks them.
C16_FailedEventsNeverRetried ==
    \A r \in FailedEmailRuns : \A id \in RunIds(r) :
        /\ \E e \in store : e.RowKey = id /\ ~e.notified
        /\ \A e \in store : e.RowKey = id => ~e.notified
        /\ \A m \in marked : m.RowKey # id
        /\ \A a \in alert_calls : a.run # r => id \notin IdsOf(a)

\* a later invocation fetched such an event again, skipped it, and sent a
\* successful alert email for another event
C16_Witness ==
    \E r \in FailedEmailRuns, q \in Runs :
        /\ q # r /\ r \in run[q].after
        /\ run[q].pc = "done" /\ run[q].result.email_sent
        /\ marked # {}
        /\ \E i \in 1..Len(run[q].scrape_results.absences) :
            GenerateEventId(run[q].scrape_results.absences[i], "absence")
                \in RunIds(r)

\* a hyphenated string of three parts with the given lengths
IsFormat(date_str, lens) ==
    LET parts == Split(date_str, "-")
    IN  /\ Len(parts) = 3
        /\ \A i \in 1..3 : Len(parts[i]) = lens[i]

\* C17: _normalize_date turns DD-MM-YYYY into YYYY-MM-DD, returns
\* YYYY-MM-DD and "unknown" as they are, and applied to its own result
\* returns that result.
C17_NormalizeDateIdempotent ==
    fn.op = "normalize_date" =>
        /\ IsFormat(fn.date_str, <<2, 2, 4>>) =>
            /\ IsFormat(fn.once, <<4, 2, 2>>)
            /\ \A i \in 1..3 :
                Split(fn.once, "-")[i] = Split(fn.date_str, "-")[4 - i]
        /\ (IsFormat(fn.date_str, <<4, 2, 2>>) \/ fn.date_str = UNKNOWN)
            => fn.once = fn.date_str
        /\ fn.twice = fn.once

\* C18: _generate_event_id raises for no raw record, and a record without
\* a discriminator field gets the identity of the record that holds "" in
\* that field.
C18_IdentityTotal ==
    fn.op = "generate_event_id_once" =>
        /\ ~fn.raised
        /\ fn.id # <<>>
        /\ fn.id = fn.id_filled

\* identities _mark_events_notified derives for the lists of l
MarkIds(l) ==
    {GenerateEventId(MarkList(l)[i], MarkType(l, MarkList(l)[i])) :
        i \in 1..Len(MarkList(l))}

\* C19: mark_event_notified raises nothing into the invocation, creates no
\* record for an identity the store does not hold, leaves a marked record
\* as it was, and called again on an identity changes nothing more.
C19_MarkNotifiedIdempotent ==
    fn.op = "mark" =>
        /\ {e.RowKey : e \in store} = {e.RowKey : e \in fn.before}
        /\ \A e \in fn.before : e.notified => e \in store
        /\ \A r \in Runs :
            /\ run[r].failure_attempts = 0
            /\ run[r].result.error = "None"
            /\ run[r].pc = "done" => run[r].result.success
            /\ (run[r].pc = "done" /\ faults = 0)
                => store = {IF e.RowKey \in MarkIds(run[r])
                            THEN [e EXCEPT !.notified = TRUE]
                            ELSE e : e \in fn.before}

\* the marking ended after calls on an identity the store does not hold,
\* on a marked one, and twice on an unmarked one
C19_Witness ==
    /\ fn.op = "mark" /\ faults = 0
    /\ \E r \in Runs :
        /\ run[r].pc = "done"
        /\ \E id \in MarkIds(run[r]) : \A e \in fn.before : e.RowKey # id
        /\ \E i, j \in 1..Len(MarkList(run[r])) :
            /\ i < j /\ MarkList(run[r])[i] = MarkList(run[r])[j]
            /\ \E e \in fn.before :
                /\ e.RowKey = GenerateEventId(MarkList(run[r])[i], "absence")
                /\ ~e.notified
                /\ [e EXCEPT !.notified = TRUE] \in store
    /\ \E e \in fn.before : e.notified /\ e \in store

\* the entity of every event of the list is marked, the identity derived
\* with the category of the list
AllNotified(events, event_type) ==
    \A i \in 1..Len(events) :
        \E e \in store : /\ e.RowKey = GenerateEventId(events[i], event_type)
                         /\ e.notified

C21_IdStringInjective ==
    fn.op = "id_strings" =>
        (fn.tuple1 # fn.tuple2
            => /\ fn.id_string1 # fn.id_string2
               /\ fn.id1 # fn.id2)

Digits == {"0", "1", "2", "3", "4", "5", "6", "7", "8", "9"}

\* two digits, hyphen, two digits, hyphen, four digits
IsDDMMYYYY(date_str) ==
    /\ IsFormat(date_str, <<2, 2, 4>>)
    /\ \A i \in 1..Len(date_str) : date_str[i] \in Digits \cup {"-"}

\* C22: _normalize_date returns every string that is not of the shape
\* DD-MM-YYYY as it is, the empty string and "unknown" included.
C22_OnlyExactShapeRewritten ==
    fn.op = "normalize_date" =>
        (IsDDMMYYYY(fn.date_str) \/ fn.once = fn.date_str)

\* s holds elements of t only, in the order they have in t
IsSubseq(s, t) ==
    \E f \in [1..Len(s) -> 1..Len(t)] :
        /\ \A i, j \in 1..Len(s) : i < j => f[i] < f[j]
        /\ \A i \in 1..Len(s) : t[f[i]] = s[i]

\* C23: what _filter_new_events has collected and what it returned are
\* subsequences of the list it was called with.
C23_FilterOutputSubsequence ==
    \A r \in Runs :
        /\ IsSubseq(run[r].new_events, run[r].events)
        /\ IsSubseq(run[r].new_absences, run[r].scrape_results.absences)
        /\ IsSubseq(run[r].new_behavior_alerts,
                    run[r].scrape_results.behavior_alerts)

\* a filter call returned two different events of its input
C23_Witness ==
    \E r \in Runs :
        /\ run[r].filtered
        /\ Len(run[r].new_absences) = 2
        /\ run[r].new_absences[1] # run[r].new_absences[2]
        /\ run[r].new_absences = run[r].scrape_results.absences

\* C24: an invocation whose fetch failed goes to the failure notification
\* and returns: it has inserted, declined and marked no record, entered
\* no filter and sent no alert email, whatever lists the fetch result
\* carries.
C24_FailedFetchTouchesNothing ==
    \A r \in Runs :
        "fetch" \in run[r].exceptions
        => /\ run[r].pc \in {"failure_notification", "done"}
           /\ ~run[r].filtered
           /\ run[r].events = <<>> /\ run[r].new_events = <<>>
           /\ run[r].new_absences = <<>>
           /\ run[r].new_behavior_alerts = <<>>
           /\ run[r].unconsulted = {} /\ run[r].reported = {}
           /\ \A c \in created \cup saved \cup declined \cup marked :
                c.run # r
           /\ \A a \in alert_calls : a.run # r
           /\ ~run[r].result.success /\ ~run[r].result.email_sent

\* a failed fetch carried a record the store does not hold, and the
\* invocation ended
C24_Witness ==
    \E r \in Runs :
        /\ "fetch" \in run[r].exceptions /\ run[r].pc = "done"
        /\ run[r].scrape_results.absences # <<>>
        /\ ~GenerateEventIdRaises(run[r].scrape_results.absences[1])
        /\ ~Exists(GenerateEventId(run[r].scrape_results.absences[1],
                                   "absence"))

FilterPcs == {"is_new_event", "save_is_new_event", "create_entity",
              "verify_write"}

\* the step of check_alerts the invocation is at
Step(l) ==
    CASE l.pc = "idle" -> "Init"
      [] l.pc = "scrape_portal" -> "Fetch"
      [] l.pc \in FilterPcs /\ l.event_type = "absence" -> "FilterAbsences"
      [] l.pc \in FilterPcs /\ l.event_type # "absence" -> "FilterAlerts"
      [] l.pc = "send_notification" -> "Notify"
      [] l.pc \in {"mark_get_entity", "mark_update_entity"} -> "MarkNotified"
      [] l.pc = "failure_notification" -> "Failed"
      [] OTHER -> "Done"

\* the order of the steps; a filter over an empty list or one that finds
\* nothing new passes on at once
StepOrder ==
    {<<"Init", "Fetch">>, <<"Init", "Failed">>,
     <<"Fetch", "FilterAbsences">>, <<"Fetch", "FilterAlerts">>,
     <<"Fetch", "Done">>, <<"Fetch", "Failed">>,
     <<"FilterAbsences", "FilterAlerts">>, <<"FilterAbsences", "Notify">>,
     <<"FilterAbsences", "Done">>, <<"FilterAbsences", "Failed">>,
     <<"FilterAlerts", "Notify">>, <<"FilterAlerts", "Done">>,
     <<"FilterAlerts", "Failed">>,
     <<"Notify", "MarkNotified">>, <<"Notify", "Done">>,
     <<"MarkNotified", "Done">>, <<"Failed", "Done">>}

\* C25: every step of an invocation follows the order of check_alerts: a
\* filter is entered only with a successful fetch result, the absences are
\* filtered before the behaviour alerts, the alert email is attempted only
\* when both filters have returned, and the marking starts only from an
\* alert email that succeeded.
C25_StepsInOrder ==
    [][\A r \in Runs :
        LET from == Step(run[r])
            to == Step(run'[r])
        IN  from # to =>
            /\ <<from, to>> \in StepOrder
            /\ to \in {"FilterAbsences", "FilterAlerts"}
                => run'[r].scrape_results.success
            /\ (from = "Fetch" /\ to = "FilterAlerts")
                => run'[r].scrape_results.absences = <<>>
            /\ to = "Notify"
                => /\ run'[r].filtered
                   /\ from = "FilterAbsences"
                        => run'[r].scrape_results.behavior_alerts = <<>>
            /\ to = "MarkNotified"
                => /\ run'[r].result.email_sent
                   /\ \E a \in alert_calls' : a.run = r /\ a.ok]_vars

\* an invocation went through every step: both filters found a new event,
\* the email succeeded and the records were marked
C25_Witness ==
    \E r \in Runs :
        /\ run[r].pc = "done" /\ run[r].result.success
        /\ run[r].new_absences # <<>> /\ run[r].new_behavior_alerts # <<>>
        /\ run[r].result.email_sent
        /\ \E m \in marked : m.run = r

\* C26: an invocation in which the retrieval of a category failed after
\* the login ends as a failed run, with success = False and a failure
\* notification.
C26_RetrievalErrorFailsRun ==
    \A r \in Runs :
        (run[r].pc = "done" /\ "retrieval" \in run[r].exceptions)
        => /\ ~run[r].result.success
           /\ run[r].failure_attempts = 1

\* C27: the date of every stored entity is the normalized date of the raw
\* record it was built from.
C27_StoredDateNormalized ==
    \A e \in store :
        e.date = NormalizeDate(Get(e.raw_data.json, "date", UNKNOWN))

\* C28: the save_event_record calls of an invocation that returned True
\* are the calls that created an entity; a call that has created one and
\* not yet returned is at its write verification.
C28_SaveTrueIffCreated ==
    \A r \in Runs :
        /\ run[r].reported \subseteq run[r].inserted
        /\ run[r].inserted \ run[r].reported \subseteq
               IF run[r].pc = "verify_write" THEN {Position(run[r])} ELSE {}

\* the list _filter_new_events was called with for the category
InputOf(l, event_type) ==
    IF event_type = "absence" THEN l.scrape_results.absences
    ELSE l.scrape_results.behavior_alerts

\* C29: the records one _filter_new_events call returned have pairwise
\* different identities, and each is the first record of its identity in
\* the input of the call.
C29_FirstOccurrenceOnly ==
    \A r \in Runs : \A p, q \in run[r].reported :
        LET events == InputOf(run[r], p[1])
        IN  /\ (p[1] = q[1] /\ p[2] # q[2])
                => GenerateEventId(events[p[2]], p[1])
                       # GenerateEventId(events[q[2]], p[1])
            /\ \A j \in 1..(p[2] - 1) :
                GenerateEventId(events[j], p[1])
                    # GenerateEventId(events[p[2]], p[1])

\* C30: the result an invocation returns has error absent exactly when
\* success is True; email_sent only with success and at least one new
\* event; and the two counts are the lengths of the lists its
\* send_alert_email call received.
C30_ResultConsistent ==
    \A r \in Runs :
        run[r].pc = "done" =>
            LET result == run[r].result
            IN  /\ result \in Results
                /\ result.error = "None" <=> result.success
                /\ result.email_sent
                    => /\ result.success
                       /\ result.new_absences + result.new_behavior_alerts >= 1
                /\ \A a \in alert_calls :
                    a.run = r
                    => /\ result.new_absences = Len(a.absences)
                       /\ result.new_behavior_alerts = Len(a.behavior_alerts)

\* an invocation returned after an alert email with events of both
\* categories, another one returned an error
C30_Witness ==
    \E r, q \in Runs, a \in alert_calls :
        /\ run[r].pc = "done" /\ a.run = r /\ a.ok
        /\ run[r].result.email_sent
        /\ run[r].result.new_absences = 1
        /\ run[r].result.new_behavior_alerts = 1
        /\ run[q].pc = "done" /\ run[q].result.error # "None"

====
